---- MODULE Spec2Model ----
(***************************************************************************)
(* A model of create_lotic_water.py: the per-county loaders, the merge     *)
(* loops of run_lotic / run_estuary, the connectivity filter, the network  *)
(* self-touch filter and the chunked spatial join sjoin_mp / sjoin.        *)
(*                                                                         *)
(* Geometry is abstracted to a record [pts, area, valid]: pts is the set   *)
(* of grid points the feature covers (two features intersect when they     *)
(* share a point), area is the planar area in hundredths of a square       *)
(* metre, and valid = FALSE marks a geometry on which the predicate        *)
(* engine raises.  A table is a record [columns, rows].  An exception is   *)
(* a value of err other than "none"; the script has no try/except, so a    *)
(* raised exception unwinds every frame and ends the run.                  *)
(***************************************************************************)
EXTENDS Integers, Sequences, FiniteSets, TLC

VARIABLES
    entry,          \* the function the interpreter was asked to run
    pc,             \* position of the top-level control flow
    stage,          \* output stage in progress: lotic / estuary / facet / none
    called,         \* names of the functions entered so far
    todo,           \* regions still to be visited by the stage's for loop
    nregions,       \* number of regions the for loop iterates over
    loaded,         \* what each loader call returned, in call order
    parts,          \* lotic_list / est_list
    gdf,            \* lotic_gdf / est_gdf / gdf of the stage in progress
    facet,          \* the FACET lines read by remove_disconnected_features
    written,        \* stages whose to_file call has run
    outfile,        \* rows handed to to_file, per stage
    err,            \* "none" or the exception that ended the run
    df1, df2,       \* sjoin_mp: left and right table
    sjoin_op,       \* sjoin_mp: predicate name
    cols,           \* sjoin_mp: columns to retain
    batch_size,     \* sjoin_mp: batch_size
    i,              \* sjoin_mp: loop index of the chunking loop
    chunk_iterator, \* sjoin_mp: the argument tuples built so far
    pool,           \* sjoin_mp: "none" / "open" / "closed"
    results,        \* pool.map: per task, pending / ok / raised
    sj_results,     \* sjoin_mp: the concatenated result
    jpc,            \* position inside sjoin_mp
    file,           \* direct loader call: the region file the loader reads
    threshold,      \* min acres
    ret             \* direct loader call: what the loader returned

vars == <<entry, pc, stage, called, todo, nregions, loaded, parts, gdf, facet,
          written, outfile, err, df1, df2, sjoin_op, cols, batch_size, i,
          chunk_iterator, pool, results, sj_results, jpc, file, threshold, ret>>

pipeVars == <<stage, called, todo, nregions, loaded, parts, gdf, facet,
              written, outfile>>
joinVars == <<df1, df2, sjoin_op, cols, batch_size, i, chunk_iterator, pool,
              results, sj_results, jpc>>
loaderVars == <<file, threshold, ret>>

----------------------------------------------------------------------------
(* Bounds of the model *)

\* rows of the left table in a direct sjoin_mp call
MaxLeft == 6
\* rows of the right table in a direct sjoin_mp call
MaxRight == 2
\* entries os.listdir(folder) returns
MaxRegions == 2
\* records of a region file in a pipeline run
MaxRecs == 1
\* records of a region file in a direct loader call
MaxFileRecs == 2
\* segments of the FACET network file
MaxSeg == 2

(* Program constants *)

\* NUM_CPUS
NUM_CPUS == 6
\* 4046.86 square metres per acre, in hundredths of a square metre
SqmPerAcre == 404686
\* threshold = 25 # min acres
MinAcres == 25
\* the seven county folders of run_estuary
NumEstuaryCounties == 7
\* the land-use codes the loaders select
LoticCode == 1300
ReservoirCode == 1210
EstuaryCode == 1100

----------------------------------------------------------------------------
(* Generic helpers *)

Range(s) == {s[k] : k \in 1..Len(s)}

SeqsUpTo(S, n) == UNION {[1..k -> S] : k \in 0..n}

Min(a, b) == IF a < b THEN a ELSE b

\* pd.concat of a list of row sequences: rows in list order
Flatten(ss) ==
    LET F[k \in 0..Len(ss)] == IF k = 0 THEN <<>> ELSE F[k-1] \o ss[k]
    IN  F[Len(ss)]

\* Python slice s[mn:mx] of a 0-based sequence (positions mn .. mx-1)
Slice(s, mn, mx) == SubSeq(s, Min(mn, Len(s)) + 1, Min(mx, Len(s)))

----------------------------------------------------------------------------
(* Geometries and tables *)

Geom(p, a, v) == [pts |-> p, area |-> a, valid |-> v]

\* water polygons: just under 25 acres, exactly 25 acres, exactly 50 acres
PBelow == Geom({1}, 10117149, TRUE)
PExact == Geom({3}, 10117150, TRUE)
PFifty == Geom({5}, 20234300, TRUE)

\* stream segments as the grid points they pass through
S12 == Geom({1, 2}, 0, TRUE)
S23 == Geom({2, 3}, 0, TRUE)
S45 == Geom({4, 5}, 0, TRUE)
\* a segment on which the predicate engine raises
SBad == Geom({3, 4}, 0, FALSE)

Polys == {PBelow, PExact}
Lines == {S12, S23, S45, SBad}
ProbeLines == {S12, SBad}
Ops == {"intersects", "within"}

Table(cs, rs) == [columns |-> cs, rows |-> rs]

\* lotic_gdf.loc[:, 'id'] = [int(x) for x in range(len(lotic_gdf))], then
\* the selection [['id','geometry']]
IdGeometry(rs) ==
    Table({"id", "geometry"},
          [k \in 1..Len(rs) |-> [id |-> k - 1, geometry |-> rs[k].geometry]])

\* facet[['geometry']]
GeometryOnly(rs) ==
    Table({"geometry"}, [k \in 1..Len(rs) |-> [geometry |-> rs[k].geometry]])

----------------------------------------------------------------------------
(* sjoin: the per-chunk worker function *)

\* the binary predicate of gpd.sjoin on two geometries
Predicate(op, a, b) ==
    CASE op = "intersects" -> a.pts \cap b.pts # {}
      [] op = "within"     -> a.pts # {} /\ a.pts \subseteq b.pts
      [] op = "contains"   -> b.pts # {} /\ b.pts \subseteq a.pts

Lowest(S) == CHOOSE x \in S : \A y \in S : x <= y
Highest(S) == CHOOSE x \in S : \A y \in S : x >= y

\* the spatial index of gpd.sjoin pairs the features whose extents meet
Candidates(a, b) ==
    /\ a.pts # {} /\ b.pts # {}
    /\ Lowest(a.pts) <= Highest(b.pts)
    /\ Lowest(b.pts) <= Highest(a.pts)

\* the predicate engine raises when it is run on an invalid geometry, which
\* happens for the candidate pairs only
PredicateRaises(a, b) == Candidates(a, b) /\ (~a.valid \/ ~b.valid)

\* columns of gpd.sjoin(df1, df2, how='inner'): a name shared by both sides
\* gets the suffixes _left / _right, the right index becomes index_right
JoinColumns(left, right) ==
    IF "id" \in left.columns /\ "id" \in right.columns
    THEN {"id_left", "geometry", "index_right", "id_right"}
    ELSE (left.columns \cup {"index_right"})
         \cup {IF c = "id" THEN "id_right" ELSE c : c \in right.columns \ {"geometry"}}

\* one output row of the inner join: left row l, right row r at position q
JoinRow(left, right, l, r, q) ==
    IF "id" \in left.columns /\ "id" \in right.columns
    THEN [id_left |-> l.id, geometry |-> l.geometry,
          index_right |-> q - 1, id_right |-> r.id]
    ELSE [id |-> l.id, geometry |-> l.geometry, index_right |-> q - 1]

\* gpd.sjoin(df1, df2, how='inner', op=sjoin_op): one row per satisfying pair
InnerJoin(left, right, op) ==
    LET n == Len(left.rows)
        m == Len(right.rows)
        L(k) == left.rows[((k - 1) \div m) + 1]
        Q(k) == ((k - 1) % m) + 1
        F[k \in 0..(n * m)] ==
            IF k = 0 THEN <<>>
            ELSE IF /\ Candidates(L(k).geometry, right.rows[Q(k)].geometry)
                    /\ Predicate(op, L(k).geometry, right.rows[Q(k)].geometry)
                 THEN Append(F[k-1], JoinRow(left, right, L(k), right.rows[Q(k)], Q(k)))
                 ELSE F[k-1]
    IN  F[n * m]

InnerJoinRaises(left, right) ==
    \E p \in 1..Len(left.rows), q \in 1..Len(right.rows) :
        PredicateRaises(left.rows[p].geometry, right.rows[q].geometry)

\* DataFrame.drop_duplicates: the first of each run of equal rows is kept
DropDuplicates(rs) ==
    LET F[k \in 0..Len(rs)] ==
            IF k = 0 THEN <<>>
            ELSE IF \E j \in 1..(k-1) : rs[j] = rs[k]
                 THEN F[k-1] ELSE Append(F[k-1], rs[k])
    IN  F[Len(rs)]

\* sjoinSeg[cols]
Project(rs, cs) == [k \in 1..Len(rs) |-> [c \in Range(cs) |-> rs[k][c]]]

Pending == [status |-> "pending", exc |-> "none", rows |-> <<>>]
Raised(e) == [status |-> "raised", exc |-> e, rows |-> <<>>]
Ok(rs) == [status |-> "ok", exc |-> "none", rows |-> rs]

\* a slip of sjoin: duplicates dropped after the projection instead of before
sjoin_dedup_projected(args) ==
    LET left == args[1]
        right == args[2]
    IN  IF InnerJoinRaises(left, right) THEN Raised("GEOSException")
        ELSE IF ~(Range(args[4]) \subseteq JoinColumns(left, right))
             THEN Raised("KeyError")
             ELSE Ok(DropDuplicates(Project(InnerJoin(left, right, args[3]), args[4])))

sjoin(args) ==
    LET left == args[1]
        right == args[2]
    IN  IF InnerJoinRaises(left, right) THEN Raised("GEOSException")
        ELSE IF ~(Range(args[4]) \subseteq JoinColumns(left, right))
             THEN Raised("KeyError")
             ELSE Ok(Project(DropDuplicates(InnerJoin(left, right, args[3])), args[4]))

----------------------------------------------------------------------------
(* Exceptions *)

\* a handler that swallows a stage's exception and moves on to the next stage
PropagateCaught(e, st) ==
    IF e = "main" /\ st = "lotic" THEN "estuary_start"
    ELSE IF e = "main" /\ st = "estuary" THEN "facet_start"
    ELSE "raised"

\* no frame of the script catches anything: a raised exception ends the run
Propagate(e, st) == "raised"

----------------------------------------------------------------------------
(* sjoin_mp *)

\* batch size as the exact ceiling of n / NUM_CPUS
BatchSizeCeil(n) == (n + NUM_CPUS - 1) \div NUM_CPUS

\* batch size without the + 1
BatchSizeFloor(n) == n \div 6

\* batch_size = int(len(df1) / 6) + 1
BatchSize(n) == (n \div 6) + 1

\* df1[mn:mx] for mn, mx = i * batch_size, (i + 1) * batch_size
Chunk(t, k, bs) == Table(t.columns, Slice(t.rows, k * bs, (k + 1) * bs))

\* NUM_CPUS, batch_size = 6, (int(len(df1) / 6) + 1); chunk_iterator = []
sjoin_mp_enter ==
    /\ jpc = "call"
    /\ batch_size' = BatchSize(Len(df1.rows))
    /\ chunk_iterator' = <<>>
    /\ i' = 0
    /\ jpc' = "loop"
    /\ UNCHANGED <<entry, pc, err, df1, df2, sjoin_op, cols, pool, results, sj_results>>
    /\ UNCHANGED pipeVars /\ UNCHANGED loaderVars

\* one iteration of: for i in range(NUM_CPUS)
sjoin_mp_chunk ==
    /\ jpc = "loop"
    /\ i < NUM_CPUS
    /\ chunk_iterator' = Append(chunk_iterator,
                                <<Chunk(df1, i, batch_size), df2, sjoin_op, cols>>)
    /\ i' = i + 1
    /\ UNCHANGED <<entry, pc, err, df1, df2, sjoin_op, cols, batch_size, pool,
                   results, sj_results, jpc>>
    /\ UNCHANGED pipeVars /\ UNCHANGED loaderVars

\* pool = mp.Pool(processes=NUM_CPUS); pool.map submits the six tasks
sjoin_mp_pool ==
    /\ jpc = "loop"
    /\ i = NUM_CPUS
    /\ pool' = "open"
    /\ results' = [k \in 0..(NUM_CPUS - 1) |-> Pending]
    /\ jpc' = "map"
    /\ UNCHANGED <<entry, pc, err, df1, df2, sjoin_op, cols, batch_size, i,
                   chunk_iterator, sj_results>>
    /\ UNCHANGED pipeVars /\ UNCHANGED loaderVars

\* a worker process runs sjoin on one task; tasks finish in any order
worker(k) ==
    /\ jpc = "map"
    /\ results[k].status = "pending"
    /\ results' = [results EXCEPT ![k] = sjoin(chunk_iterator[k + 1])]
    /\ UNCHANGED <<entry, pc, err, df1, df2, sjoin_op, cols, batch_size, i,
                   chunk_iterator, pool, sj_results, jpc>>
    /\ UNCHANGED pipeVars /\ UNCHANGED loaderVars

\* a mapping that drops failed tasks instead of re-raising
MapRaisesNever(rs) == {}

\* the tasks whose exception pool.map re-raises in the parent
MapRaises(rs) == {k \in DOMAIN rs : rs[k].status = "raised"}

\* pool.map returns the six results in task order
pool_map_return ==
    /\ jpc = "map"
    /\ \A k \in DOMAIN results : results[k].status # "pending"
    /\ MapRaises(results) = {}
    /\ jpc' = "close"
    /\ UNCHANGED <<entry, pc, err, df1, df2, sjoin_op, cols, batch_size, i,
                   chunk_iterator, pool, results, sj_results>>
    /\ UNCHANGED pipeVars /\ UNCHANGED loaderVars

\* pool.map re-raises a worker's exception: at once or after the last task,
\* depending on the interpreter; pool.close() is skipped
pool_map_raise ==
    /\ jpc = "map"
    /\ \E k \in MapRaises(results) :
          /\ err' = results[k].exc
          /\ jpc' = "raised"
          /\ pc' = Propagate(entry, stage)
    /\ UNCHANGED <<entry, df1, df2, sjoin_op, cols, batch_size, i,
                   chunk_iterator, pool, results, sj_results>>
    /\ UNCHANGED pipeVars /\ UNCHANGED loaderVars

\* pool.close()
pool_close ==
    /\ jpc = "close"
    /\ pool' = "closed"
    /\ jpc' = "concat"
    /\ UNCHANGED <<entry, pc, err, df1, df2, sjoin_op, cols, batch_size, i,
                   chunk_iterator, results, sj_results>>
    /\ UNCHANGED pipeVars /\ UNCHANGED loaderVars

\* sj_results = pd.concat(sj_results); return sj_results
sjoin_mp_return ==
    /\ jpc = "concat"
    /\ sj_results' = Flatten([k \in 1..NUM_CPUS |-> results[k - 1].rows])
    /\ jpc' = "returned"
    /\ UNCHANGED <<entry, pc, err, df1, df2, sjoin_op, cols, batch_size, i,
                   chunk_iterator, pool, results>>
    /\ UNCHANGED pipeVars /\ UNCHANGED loaderVars

NoTable == Table({}, <<>>)

\* the state before any frame of sjoin_mp exists
JoinIdle ==
    /\ df1 = NoTable /\ df2 = NoTable /\ sjoin_op = "none" /\ cols = <<>>
    /\ batch_size = 0 /\ i = 0 /\ chunk_iterator = <<>> /\ pool = "none"
    /\ results = <<>> /\ sj_results = <<>> /\ jpc = "idle"

PipeIdle ==
    /\ stage = "none" /\ todo = 0 /\ nregions = 0 /\ loaded = <<>>
    /\ parts = <<>> /\ gdf = <<>> /\ facet = <<>> /\ written = {}
    /\ outfile = [s \in {"lotic", "estuary", "facet"} |-> <<>>]

LoaderIdle == file = [present |-> FALSE, rows |-> <<>>] /\ ret = Pending

\* a direct call sjoin_mp(df1, sjoin_op, df2, ['id']) on tables whose
\* identifiers are the row positions, as both callers assign them
InitJoin ==
    /\ entry = "sjoin_mp" /\ pc = "in_join" /\ err = "none"
    /\ PipeIdle /\ called = {"sjoin_mp"}
    /\ LoaderIdle /\ threshold = MinAcres
    /\ \E ls \in SeqsUpTo(Polys, MaxLeft) :
          df1 = IdGeometry([k \in 1..Len(ls) |-> [geometry |-> ls[k]]])
    /\ \E rs \in SeqsUpTo(ProbeLines, MaxRight) :
          df2 = GeometryOnly([k \in 1..Len(rs) |-> [geometry |-> rs[k]]])
    /\ sjoin_op \in Ops
    /\ cols = <<"id">>
    /\ batch_size = 0 /\ i = 0 /\ chunk_iterator = <<>> /\ pool = "none"
    /\ results = <<>> /\ sj_results = <<>> /\ jpc = "call"

NextJoin ==
    \/ sjoin_mp_enter
    \/ sjoin_mp_chunk
    \/ sjoin_mp_pool
    \/ \E k \in 0..(NUM_CPUS - 1) : worker(k)
    \/ pool_map_return
    \/ pool_map_raise
    \/ pool_close
    \/ sjoin_mp_return

SpecJoin == InitJoin /\ [][NextJoin]_vars

----------------------------------------------------------------------------
(* Loaders *)

Digits == {"0", "1", "2", "3", "4", "5", "6", "7", "8", "9"}

DigitValue(c) ==
    CASE c = "0" -> 0 [] c = "1" -> 1 [] c = "2" -> 2 [] c = "3" -> 3
      [] c = "4" -> 4 [] c = "5" -> 5 [] c = "6" -> 6 [] c = "7" -> 7
      [] c = "8" -> 8 [] c = "9" -> 9

\* int(text) accepts a non-empty run of decimal digits
IsInt(text) == Len(text) > 0 /\ \A k \in 1..Len(text) : text[k] \in Digits

\* int(text): the decimal value of the digits
ToInt(text) ==
    LET F[k \in 0..Len(text)] ==
            IF k = 0 THEN 0 ELSE 10 * F[k-1] + DigitValue(text[k])
    IN  F[Len(text)]

\* the raw lu_code values a region file may hold
RawCodes == {<<"1", "2", "1", "0">>, <<"1", "3", "0", "0">>,
             <<"1", "1", "0", "0">>, <<"1", "3", "x", "0">>}

RawRecords(polys) == {[lu_code |-> c, geometry |-> g] : c \in RawCodes, g \in polys}

\* a region's water.gpkg: absent, or a layer of at most n records
RegionFiles(polys, n) ==
    {[present |-> FALSE, rows |-> <<>>]}
    \cup {[present |-> TRUE, rows |-> rs] : rs \in SeqsUpTo(RawRecords(polys), n)}

\* gdf.lu_code.astype(int) raises when one value is not a number
AstypeIntRaises(rows) == \E k \in 1..Len(rows) : ~IsInt(rows[k].lu_code)

\* gdf.geometry.area / 4046.86, in hundredths of an acre, rounded down
Acres(g) == (g.area * 100) \div SqmPerAcre

\* the size test with an exclusive lower bound
KeepLoticStrict(code, acres, thr) ==
    code = ReservoirCode \/ (code = LoticCode /\ acres > thr * 100)

\* (lu_code == 1210) | ((lu_code == 1300) & (acres >= threshold))
KeepLotic(code, acres, thr) ==
    code = ReservoirCode \/ (code = LoticCode /\ acres >= thr * 100)

\* Lotic.get_lotic_and_reservoirs(folder, cf, threshold) on cf's file f
get_lotic_and_reservoirs(f, thr) ==
    IF ~f.present THEN Ok(<<>>)
    ELSE IF AstypeIntRaises(f.rows) THEN Raised("ValueError")
    ELSE LET typed == [k \in 1..Len(f.rows) |->
                          [lu_code |-> ToInt(f.rows[k].lu_code),
                           geometry |-> f.rows[k].geometry]]
             IsWater(r) == r.lu_code \in {LoticCode, ReservoirCode}
             water == SelectSeq(typed, IsWater)
             sized == [k \in 1..Len(water) |->
                          [lu_code |-> water[k].lu_code,
                           acres |-> Acres(water[k].geometry),
                           geometry |-> water[k].geometry]]
             Keep(r) == KeepLotic(r.lu_code, r.acres, thr)
         IN  Ok(SelectSeq(sized, Keep))

\* Estuary.getEstuaryMarine(folder, cf) on cf's file f
getEstuaryMarine(f) ==
    IF ~f.present THEN Ok(<<>>)
    ELSE IF AstypeIntRaises(f.rows) THEN Raised("ValueError")
    ELSE LET typed == [k \in 1..Len(f.rows) |->
                          [lu_code |-> ToInt(f.rows[k].lu_code),
                           geometry |-> f.rows[k].geometry]]
             IsEstuary(r) == r.lu_code = EstuaryCode
         IN  Ok(SelectSeq(typed, IsEstuary))

\* a loop that keeps only the table of the last region that had records
KeepLast(list, tmp) == IF Len(tmp) > 0 THEN <<tmp>> ELSE list

\* if len(tmp) > 0: lotic_list.append(tmp.copy())
AppendIfAny(list, tmp) == IF Len(tmp) > 0 THEN Append(list, tmp) ELSE list

\* pd.concat(list): "No objects to concatenate" on an empty list
pd_concat(list) == IF list = <<>> THEN Raised("ValueError") ELSE Ok(Flatten(list))

----------------------------------------------------------------------------
(* run_lotic, run_estuary, clean_facet *)

Stages == {"lotic", "estuary", "facet"}

\* the statement that follows a stage's return in __main__
NextStage(e, st) ==
    IF e # "main" THEN "returned"
    ELSE IF st = "lotic" THEN "estuary_start"
    ELSE IF st = "estuary" THEN "facet_start"
    ELSE "exit"

\* where the interpreter starts for each entry point
StartOf(e) ==
    CASE e = "main"        -> "lotic_start"
      [] e = "run_estuary" -> "estuary_start"
      [] e = "clean_facet" -> "facet_start"

\* run_lotic up to the for statement: os.listdir(folder) lists the regions
run_lotic_start ==
    /\ pc = "lotic_start"
    /\ stage' = "lotic"
    /\ called' = called \cup {"run_lotic"}
    /\ \E n \in 0..MaxRegions : nregions' = n /\ todo' = n
    /\ parts' = <<>> /\ loaded' = <<>>
    /\ pc' = "loop"
    /\ UNCHANGED <<entry, gdf, facet, written, outfile, err>>
    /\ UNCHANGED joinVars /\ UNCHANGED loaderVars

\* one iteration of run_lotic's loop over the regions
run_lotic_load ==
    /\ pc = "loop" /\ stage = "lotic" /\ todo > 0
    /\ called' = called \cup {"get_lotic_and_reservoirs"}
    /\ \E f \in RegionFiles(Polys, MaxRecs) :
          LET tmp == get_lotic_and_reservoirs(f, threshold)
          IN  IF tmp.status = "raised"
              THEN /\ err' = tmp.exc
                   /\ pc' = Propagate(entry, stage)
                   /\ UNCHANGED <<todo, loaded, parts>>
              ELSE /\ parts' = AppendIfAny(parts, tmp.rows)
                   /\ loaded' = Append(loaded, [present |-> f.present, rows |-> tmp.rows])
                   /\ todo' = todo - 1
                   /\ UNCHANGED <<pc, err>>
    /\ UNCHANGED <<entry, stage, nregions, gdf, facet, written, outfile>>
    /\ UNCHANGED joinVars /\ UNCHANGED loaderVars

\* lotic_gdf = pd.concat(lotic_list).pipe(gpd.GeoDataFrame); crs
run_lotic_concat ==
    /\ pc = "loop" /\ stage = "lotic" /\ todo = 0
    /\ LET r == pd_concat(parts)
       IN  IF r.status = "raised"
           THEN err' = r.exc /\ pc' = Propagate(entry, stage) /\ UNCHANGED gdf
           ELSE gdf' = r.rows /\ pc' = "rdf" /\ UNCHANGED err
    /\ UNCHANGED <<entry, stage, called, todo, nregions, loaded, parts, facet,
                   written, outfile>>
    /\ UNCHANGED joinVars /\ UNCHANGED loaderVars

\* run_estuary up to the for statement: the loop visits the seven counties
run_estuary_start ==
    /\ pc = "estuary_start"
    /\ stage' = "estuary"
    /\ called' = called \cup {"run_estuary"}
    /\ nregions' = NumEstuaryCounties /\ todo' = NumEstuaryCounties
    /\ parts' = <<>> /\ loaded' = <<>>
    /\ pc' = "loop"
    /\ UNCHANGED <<entry, gdf, facet, written, outfile, err>>
    /\ UNCHANGED joinVars /\ UNCHANGED loaderVars

\* one iteration of run_estuary's loop over the counties
run_estuary_load ==
    /\ pc = "loop" /\ stage = "estuary" /\ todo > 0
    /\ called' = called \cup {"getEstuaryMarine"}
    /\ \E f \in RegionFiles({PExact}, MaxRecs) :
          LET tmp == getEstuaryMarine(f)
          IN  IF tmp.status = "raised"
              THEN /\ err' = tmp.exc
                   /\ pc' = Propagate(entry, stage)
                   /\ UNCHANGED <<todo, loaded, parts>>
              ELSE /\ parts' = AppendIfAny(parts, tmp.rows)
                   /\ loaded' = Append(loaded, [present |-> f.present, rows |-> tmp.rows])
                   /\ todo' = todo - 1
                   /\ UNCHANGED <<pc, err>>
    /\ UNCHANGED <<entry, stage, nregions, gdf, facet, written, outfile>>
    /\ UNCHANGED joinVars /\ UNCHANGED loaderVars

\* est_gdf = pd.concat(est_list).pipe(gpd.GeoDataFrame); crs
run_estuary_concat ==
    /\ pc = "loop" /\ stage = "estuary" /\ todo = 0
    /\ LET r == pd_concat(parts)
       IN  IF r.status = "raised"
           THEN err' = r.exc /\ pc' = Propagate(entry, stage) /\ UNCHANGED gdf
           ELSE gdf' = r.rows /\ pc' = "write" /\ UNCHANGED err
    /\ UNCHANGED <<entry, stage, called, todo, nregions, loaded, parts, facet,
                   written, outfile>>
    /\ UNCHANGED joinVars /\ UNCHANGED loaderVars

\* the network files gpd.read_file(facet_path) may hold
Networks == SeqsUpTo({[geometry |-> g] : g \in Lines}, MaxSeg)

\* gpd.read_file(facet_path, bbox=lotic_gdf.envelope): the lines whose
\* extent meets the extent of the polygons
read_file_bbox(net, polys) ==
    LET covered == UNION {polys[k].geometry.pts : k \in 1..Len(polys)}
        InBox(r) == /\ covered # {}
                    /\ Lowest(r.geometry.pts) <= Highest(covered)
                    /\ Highest(r.geometry.pts) >= Lowest(covered)
    IN  SelectSeq(net, InBox)

\* gdf.loc[:, 'id'] = [int(x) for x in range(len(gdf))]
WithId(rs) == [k \in 1..Len(rs) |-> [c \in DOMAIN rs[k] \cup {"id"} |->
                                        IF c = "id" THEN k - 1 ELSE rs[k][c]]]

\* def sjoin_mp(df1, sjoin_op, df2, cols)
SjoinMpParams == <<"df1", "sjoin_op", "df2", "cols">>

\* sjoin_mp(lotic_gdf[['id','geometry']], 'intersects', facet[['geometry']])
RemoveDisconnectedArgs(polys, lines) ==
    <<IdGeometry(polys), "intersects", GeometryOnly(lines)>>

\* sjoin_mp(gdf[['id','geometry']], 'intersects', gdf[['id','geometry']],
\*          ['id_left','id_right'])
CleanFacetArgs(segs) ==
    <<IdGeometry(segs), "intersects", IdGeometry(segs), <<"id_left", "id_right">> >>

\* binding the arguments of a call to sjoin_mp's four parameters
BindSjoinMp(args) ==
    IF Len(args) # Len(SjoinMpParams)
    THEN /\ err' = "TypeError"
         /\ pc' = Propagate(entry, stage)
         /\ UNCHANGED joinVars
    ELSE /\ df1' = args[1] /\ sjoin_op' = args[2] /\ df2' = args[3] /\ cols' = args[4]
         /\ jpc' = "call"
         /\ pc' = "in_join"
         /\ UNCHANGED <<err, batch_size, i, chunk_iterator, pool, results, sj_results>>

\* remove_disconnected_features up to its call of sjoin_mp
remove_disconnected_features ==
    /\ pc = "rdf"
    /\ called' = called \cup {"remove_disconnected_features"}
    /\ \E net \in Networks :
          /\ facet' = read_file_bbox(net, gdf)
          /\ gdf' = WithId(gdf)
          /\ BindSjoinMp(RemoveDisconnectedArgs(gdf', facet'))
    /\ UNCHANGED <<entry, stage, todo, nregions, loaded, parts, written, outfile>>
    /\ UNCHANGED loaderVars

\* clean_facet up to its call of sjoin_mp
clean_facet_start ==
    /\ pc = "facet_start"
    /\ stage' = "facet"
    /\ called' = called \cup {"clean_facet"}
    /\ \E net \in Networks :
          /\ gdf' = WithId(net)
          /\ BindSjoinMp(CleanFacetArgs(gdf'))
    /\ UNCHANGED <<entry, todo, nregions, loaded, parts, facet, written, outfile>>
    /\ UNCHANGED loaderVars

\* lotic_gdf[lotic_gdf['id'].isin(list(lotic_ids['id']))]
SelectConnected(rs, sj) ==
    LET ids == {sj[k].id : k \in 1..Len(sj)}
        Keep(r) == r.id \in ids
    IN  SelectSeq(rs, Keep)

\* a selection that counts a segment's match with itself
SelectTouchingSelf(rs, sj) ==
    LET ids == {sj[k].id_left : k \in 1..Len(sj)}
        Keep(r) == r.id \in ids
    IN  SelectSeq(rs, Keep)

\* df[df['id_left'] != df['id_right']][['id_left']], its unique values, and
\* gdf[gdf['id'].isin(ids)]
SelectTouching(rs, sj) ==
    LET ids == {sj[k].id_left : k \in {j \in 1..Len(sj) : sj[j].id_left # sj[j].id_right}}
        Keep(r) == r.id \in ids
    IN  SelectSeq(rs, Keep)

\* the caller's statements after sjoin_mp returned, up to to_file
select_joined ==
    /\ pc = "in_join" /\ jpc = "returned" /\ stage \in {"lotic", "facet"}
    /\ gdf' = IF stage = "lotic" THEN SelectConnected(gdf, sj_results)
                                 ELSE SelectTouching(gdf, sj_results)
    /\ pc' = "write"
    /\ UNCHANGED <<entry, stage, called, todo, nregions, loaded, parts, facet,
                   written, outfile, err>>
    /\ UNCHANGED joinVars /\ UNCHANGED loaderVars

\* <stage's table>.to_file(outpath), the last statement of every stage
to_file ==
    /\ pc = "write"
    /\ written' = written \cup {stage}
    /\ outfile' = [outfile EXCEPT ![stage] = gdf]
    /\ pc' = NextStage(entry, stage)
    /\ UNCHANGED <<entry, stage, called, todo, nregions, loaded, parts, gdf,
                   facet, err>>
    /\ UNCHANGED joinVars /\ UNCHANGED loaderVars

\* python create_lotic_water.py, or a call of one stage from an importing script
Init ==
    /\ entry \in {"main", "run_estuary", "clean_facet"}
    /\ pc = StartOf(entry)
    /\ err = "none"
    /\ called = {}
    /\ PipeIdle /\ JoinIdle /\ LoaderIdle
    /\ threshold = MinAcres

Next ==
    \/ run_lotic_start
    \/ run_lotic_load
    \/ run_lotic_concat
    \/ remove_disconnected_features
    \/ run_estuary_start
    \/ run_estuary_load
    \/ run_estuary_concat
    \/ clean_facet_start
    \/ sjoin_mp_enter
    \/ sjoin_mp_chunk
    \/ sjoin_mp_pool
    \/ \E k \in 0..(NUM_CPUS - 1) : worker(k)
    \/ pool_map_return
    \/ pool_map_raise
    \/ pool_close
    \/ sjoin_mp_return
    \/ select_joined
    \/ to_file

Spec == Init /\ [][Next]_vars

----------------------------------------------------------------------------
(* The loaders on their own *)

Thresholds == {25, 50}

LoaderPolys == {PBelow, PExact, PFifty}

\* a call of get_lotic_and_reservoirs
lotic_loader_call ==
    /\ pc = "loader_call" /\ entry = "get_lotic_and_reservoirs"
    /\ ret' = get_lotic_and_reservoirs(file, threshold)
    /\ err' = ret'.exc
    /\ pc' = IF ret'.status = "raised" THEN Propagate(entry, stage) ELSE "returned"
    /\ UNCHANGED <<entry, file, threshold>>
    /\ UNCHANGED pipeVars /\ UNCHANGED joinVars

\* a call of getEstuaryMarine
estuary_loader_call ==
    /\ pc = "loader_call" /\ entry = "getEstuaryMarine"
    /\ ret' = getEstuaryMarine(file)
    /\ err' = ret'.exc
    /\ pc' = IF ret'.status = "raised" THEN Propagate(entry, stage) ELSE "returned"
    /\ UNCHANGED <<entry, file, threshold>>
    /\ UNCHANGED pipeVars /\ UNCHANGED joinVars

InitLoader ==
    /\ entry \in {"get_lotic_and_reservoirs", "getEstuaryMarine"}
    /\ pc = "loader_call"
    /\ err = "none"
    /\ called = {}
    /\ PipeIdle /\ JoinIdle
    /\ file \in RegionFiles(LoaderPolys, MaxFileRecs)
    /\ threshold \in Thresholds
    /\ ret = Pending

NextLoader == lotic_loader_call \/ estuary_loader_call

SpecLoader == InitLoader /\ [][NextLoader]_vars

----------------------------------------------------------------------------
(* Properties *)

\* the left identifiers of a join result
LeftIds(rs) ==
    {IF "id" \in DOMAIN rs[k] THEN rs[k].id ELSE rs[k].id_left : k \in 1..Len(rs)}

\* sjoin_mp has built all its chunks
Chunked == jpc \in {"map", "close", "concat", "returned", "raised"}

ChunkRows(k) == chunk_iterator[k + 1][1].rows

Max(a, b) == IF a > b THEN a ELSE b

\* C1: when sjoin_mp returns, the left identifiers of its result are those of
\* one sjoin over the whole left table, and the six chunks, laid end to end,
\* are the left table: every left row falls in exactly one chunk.
C1_PartitionIndependence ==
    jpc = "returned" =>
        /\ LeftIds(sj_results) = LeftIds(sjoin(<<df1, df2, sjoin_op, cols>>).rows)
        /\ Flatten([k \in 1..NUM_CPUS |-> ChunkRows(k - 1)]) = df1.rows

\* C1 witness: a six-row left table, so chunks of two rows, of which some
\* rows match and some do not.
C1_Witness ==
    /\ jpc = "returned"
    /\ Len(df1.rows) = 6
    /\ Len(ChunkRows(0)) = 2
    /\ LeftIds(sj_results) # {}
    /\ LeftIds(sj_results) # {df1.rows[k].id : k \in 1..Len(df1.rows)}

\* the number of right rows that satisfy the predicate with left row l
Matches(l) ==
    Cardinality({q \in 1..Len(df2.rows) :
                    Predicate(sjoin_op, l.geometry, df2.rows[q].geometry)})

\* the number of rows of rs that carry left identifier x
Occurrences(rs, x) ==
    Cardinality({k \in 1..Len(rs) :
                    (IF "id" \in DOMAIN rs[k] THEN rs[k].id ELSE rs[k].id_left) = x})

\* C2 as stated: the table sjoin_mp returns holds no identifier twice.
C2_NoDuplicateIds ==
    jpc = "returned" => Len(sj_results) = Cardinality(LeftIds(sj_results))

\* C2 amended: the table sjoin_mp returns holds one row per satisfying
\* (left row, right row) pair: a left row that satisfies the predicate
\* against k right rows appears k times, because the duplicates are dropped
\* from the full join rows, before the projection.
C2_OneRowPerPair ==
    jpc = "returned" =>
        \A p \in 1..Len(df1.rows) :
            Occurrences(sj_results, df1.rows[p].id) = Matches(df1.rows[p])

\* C2 witness: a left row that matches two right rows is in the result twice.
C2_Witness ==
    /\ jpc = "returned"
    /\ \E p \in 1..Len(df1.rows) :
          /\ Matches(df1.rows[p]) = 2
          /\ Occurrences(sj_results, df1.rows[p].id) = 2

\* C3 as stated: once remove_disconnected_features has been entered it ends
\* with a result, not an error, and that result is exactly the polygons that
\* intersect at least one network line.
C3_ConnectivityFilter ==
    "remove_disconnected_features" \in called =>
        /\ err = "none"
        /\ pc = "write" =>
              LET all == WithId(Flatten(parts))
                  Touches(r) == \E q \in 1..Len(facet) :
                                   r.geometry.pts \cap facet[q].geometry.pts # {}
              IN  gdf = SelectSeq(all, Touches)

\* the segments of the network that share a point with another segment
Connected(segs) ==
    {r.id : r \in {x \in Range(segs) :
                      \E y \in Range(segs) :
                          y.id # x.id /\ x.geometry.pts \cap y.geometry.pts # {}}}

\* clean_facet has made its selection
FacetSelected == stage = "facet" /\ pc \in {"write", "returned", "exit"}

\* C4: after clean_facet's selection a segment is kept if and only if it
\* intersects another segment of the network, in the network's order.
C4_SelfTouch ==
    FacetSelected =>
        /\ {gdf[k].id : k \in 1..Len(gdf)} = Connected(df1.rows)
        /\ \A k \in 1..Len(gdf) : gdf[k].geometry = df1.rows[gdf[k].id + 1].geometry
        /\ \A k \in 1..(Len(gdf) - 1) : gdf[k].id < gdf[k + 1].id

\* C4 witness: a network of one isolated segment is emptied.
C4_Witness ==
    /\ FacetSelected
    /\ Len(df1.rows) = 1
    /\ Len(sj_results) = 1
    /\ gdf = <<>>

\* C5 as stated: six chunks of size ceil(n / 6), only the last one smaller.
C5_CeilChunks ==
    Chunked =>
        /\ Len(chunk_iterator) = NUM_CPUS
        /\ batch_size * NUM_CPUS >= Len(df1.rows)
        /\ (batch_size - 1) * NUM_CPUS < Len(df1.rows)
        /\ \A k \in 0..(NUM_CPUS - 2) : Len(ChunkRows(k)) = batch_size
        /\ Len(ChunkRows(NUM_CPUS - 1)) <= batch_size

\* C5 amended: six contiguous, order-preserving chunks of batch size
\* floor(n / 6) + 1: chunk k holds the rows k * batch .. (k + 1) * batch - 1
\* that exist, so the chunks are full until the rows run out, then at most
\* one is partial and the rest are empty; the batch size is ceil(n / 6) only
\* when n is not a multiple of 6.
C5_FloorPlusOneChunks ==
    Chunked =>
        LET n == Len(df1.rows) IN
        /\ Len(chunk_iterator) = NUM_CPUS
        /\ batch_size * NUM_CPUS > n
        /\ (batch_size - 1) * NUM_CPUS <= n
        /\ \A k \in 0..(NUM_CPUS - 1) :
              /\ Len(ChunkRows(k)) = Max(0, Min(batch_size, n - k * batch_size))
              /\ \A j \in 1..Len(ChunkRows(k)) :
                    ChunkRows(k)[j] = df1.rows[k * batch_size + j]

\* C5 witness: six rows, a multiple of 6, give three chunks of two rows and
\* three empty chunks.
C5_Witness ==
    /\ Chunked
    /\ Len(df1.rows) = 6
    /\ Len(ChunkRows(2)) = 2
    /\ Len(ChunkRows(3)) = 0

\* C6 as stated: when run_lotic has aborted in the main sequence, clean_facet
\* is started all the same.  The run is over once pc is "raised".
C6_LaterStageAttempted ==
    (entry = "main" /\ stage = "lotic" /\ pc = "raised") => "clean_facet" \in called

\* C6 amended: when a stage of the main sequence aborts, the run is over:
\* neither run_estuary nor clean_facet is started afterwards.
C6_AbortEndsRun ==
    (entry = "main" /\ err # "none") =>
        /\ pc = "raised"
        /\ stage = "lotic" => called \cap {"run_estuary", "clean_facet"} = {}
        /\ stage = "estuary" => "clean_facet" \notin called

\* C6 witness: run_lotic aborted in the main sequence.
C6_Witness ==
    /\ entry = "main" /\ pc = "raised" /\ err = "TypeError"
    /\ called = {"run_lotic", "get_lotic_and_reservoirs", "remove_disconnected_features"}

\* C7: a stage that aborted has no output file, and a stage whose file was
\* written got every region's loader result, a non-empty merge list and, in
\* the join, the result of all six workers.
C7_WriteOnlyAfterSuccess ==
    /\ err # "none" => stage \notin written
    /\ err # "none" => outfile[stage] = <<>>
    /\ (stage \in written /\ stage \in {"lotic", "estuary"}) =>
          /\ parts # <<>>
          /\ Len(loaded) = nregions
    /\ (stage \in written /\ stage \in {"lotic", "facet"}) =>
          /\ Len(chunk_iterator) = NUM_CPUS
          /\ \A k \in 0..(NUM_CPUS - 1) : results[k].status = "ok"

\* C7 witness: one join worker raised while another had delivered rows; the
\* stage aborted and its file does not exist.
C7_Witness ==
    /\ stage = "facet" /\ pc = "raised" /\ err = "GEOSException"
    /\ \E k \in 0..(NUM_CPUS - 1) : results[k].status = "ok" /\ results[k].rows # <<>>
    /\ "facet" \notin written

\* the merge of a loop stage has been made and not yet altered
Merged ==
    \/ stage = "lotic" /\ pc = "rdf"
    \/ stage = "estuary" /\ pc \in {"write", "returned", "facet_start"}

RECURSIVE RowCount(_)
RowCount(ls) == IF ls = <<>> THEN 0 ELSE Len(Head(ls).rows) + RowCount(Tail(ls))

\* C8: an absent region is loaded as zero records and the loop goes on to
\* the regions after it; the merged table is the records the loaders
\* returned, in region order, and has as many rows as they returned in all.
C8_MergeOfPresentRegions ==
    /\ \A k \in 1..Len(loaded) : ~loaded[k].present => loaded[k].rows = <<>>
    /\ Merged =>
          /\ Len(loaded) = nregions
          /\ gdf = Flatten([k \in 1..Len(loaded) |-> loaded[k].rows])
          /\ Len(gdf) = RowCount(loaded)

\* C8 witness: an absent region before two regions that have records.
C8_Witness ==
    /\ Merged
    /\ Len(gdf) >= 2
    /\ \E k \in 1..Len(loaded) :
          /\ ~loaded[k].present
          /\ \E j \in (k + 1)..Len(loaded) : loaded[j].rows # <<>>

\* the positions of the file's records that the size rule selects
Selected ==
    {p \in 1..Len(file.rows) :
        \/ file.rows[p].lu_code = <<"1", "2", "1", "0">>
        \/ /\ file.rows[p].lu_code = <<"1", "3", "0", "0">>
           /\ file.rows[p].geometry.area >= threshold * SqmPerAcre}

\* the j-th selected position
NthSelected(j) == CHOOSE p \in Selected : Cardinality({q \in Selected : q < p}) = j - 1

\* C9: get_lotic_and_reservoirs returns exactly the 1210 records and the
\* 1300 records of at least the threshold, in file order.
C9_LoaderSelection ==
    (entry = "get_lotic_and_reservoirs" /\ pc = "returned") =>
        /\ Len(ret.rows) = Cardinality(Selected)
        /\ \A j \in 1..Len(ret.rows) :
              /\ ret.rows[j].geometry = file.rows[NthSelected(j)].geometry
              /\ ret.rows[j].lu_code \in {ReservoirCode, LoticCode}
              /\ ret.rows[j].lu_code = ReservoirCode
                    <=> file.rows[NthSelected(j)].lu_code = <<"1", "2", "1", "0">>

\* C9 witness: of two 1300 records, the one of exactly 25 acres is returned
\* and the one just under 25 acres is not.
C9_Witness ==
    /\ entry = "get_lotic_and_reservoirs" /\ pc = "returned" /\ threshold = MinAcres
    /\ Len(file.rows) = 2
    /\ file.rows[1] = [lu_code |-> <<"1", "3", "0", "0">>, geometry |-> PBelow]
    /\ file.rows[2] = [lu_code |-> <<"1", "3", "0", "0">>, geometry |-> PExact]
    /\ Len(ret.rows) = 1
    /\ ret.rows[1].geometry = PExact

\* C10 as stated: whenever sjoin_mp has returned or raised, the pool it
\* created has been closed.
C10_PoolClosedOnExit ==
    jpc \in {"returned", "raised"} => pool = "closed"

====
